---- MODULE Spec2Model ----
(***************************************************************************)
(* Model of the loss kernels of src/loss.cpp: the reduction engine         *)
(* (apply_and_accumulate / _apply_and_sum), the hand-written loops, the    *)
(* losses built on them, and softmax.                                      *)
(*                                                                         *)
(* The element type T (Range::value_type) is modelled as a fixed-point     *)
(* number: the integer x stands for the real x/Scale.  Addition,           *)
(* subtraction, abs and max are exact; a product, a quotient by 2 and a    *)
(* square root are rounded down to the grid, as a finite-precision T       *)
(* rounds them.                                                            *)
(***************************************************************************)
EXTENDS Integers, Sequences, FiniteSets

VARIABLES fn,       \* the kernel being called ("none" when no call is open)
          seq0,     \* first sequence argument  (ground / featuresA / anchor)
          seq1,     \* second sequence argument (predicted / featuresB / positive)
          seq2,     \* third sequence argument  (negative of tr)
          scalar,   \* the scalar parameter of the call (threshold / margin)
          flag,     \* the boolean label of contrastive
          pc,       \* "idle", "run", "fold", "done"
          tail,     \* fold_right's iterator, as a 1-based offset into applied
          accum,    \* fold_right's accumulator
          order,    \* history: the indices whose addition was performed, in order
          result,   \* the scalar returned
          out,      \* the sequence returned (softmax)
          outcome,  \* how the call ended: "none" (not yet), "value" (returned)
          nan,      \* whether the scalar returned is NaN (result is then 0)
          par       \* the calls running on parallel threads (see SpecPar)

\* the state of the single call of Spec
seqvars ==
    <<fn, seq0, seq1, seq2, scalar, flag, pc, tail, accum, order, result, out, outcome, nan>>

vars == <<seqvars, par>>

---------------------------------------------------------------------------
(* Bounds of the model *)

MaxLen == 2

---------------------------------------------------------------------------
(* The element type and its arithmetic *)

Scale == 100

One == Scale

abs(x) == IF x < 0 THEN -x ELSE x

max(a, b) == IF a < b THEN b ELSE a

min(a, b) == IF b < a THEN b ELSE a

\* a*b on T
mul(a, b) == (a * b) \div Scale

\* std::pow(x, 2)
pow2(x) == mul(x, x)

\* x/2 on T
half(x) == x \div 2

RECURSIVE isqrt_search(_, _, _)
isqrt_search(n, lo, hi) ==
    IF lo >= hi THEN lo
    ELSE LET mid == (lo + hi + 1) \div 2
         IN  IF mid * mid <= n THEN isqrt_search(n, mid, hi)
                               ELSE isqrt_search(n, lo, mid - 1)

\* std::sqrt(x) on T, for x >= 0: the largest grid value r with r*r <= x
\* (r stands for r/Scale and x for x/Scale, so r*r <= x*Scale; r <= x + Scale)
sqrt(x) == isqrt_search(x * Scale, 0, x + Scale)

\* exp(x) on T, tabulated on the grid values the calls below pass
exp(x) ==
    CASE x = -100 -> 36
      [] x = 0    -> 100
      [] x = 10   -> 110
      [] x = 20   -> 122
      [] x = 30   -> 134
      [] x = 40   -> 149
      [] x = 50   -> 164
      [] x = 70   -> 201
      [] x = 100  -> 271
      [] x = 150  -> 448

\* std::log(x) on T, tabulated on the grid values in (0,1) the calls below pass
log(x) ==
    CASE x = 10 -> -231
      [] x = 20 -> -161
      [] x = 30 -> -121
      [] x = 40 -> -92
      [] x = 50 -> -70
      [] x = 60 -> -52
      [] x = 70 -> -36
      [] x = 80 -> -23
      [] x = 90 -> -11

\* a scalar of T as returned: a number, or NaN
returned(x) == [nan |-> FALSE, v |-> x]

NaN == [nan |-> TRUE, v |-> 0]

\* -x/n for a sum x and a size n; the sum of no elements over size 0 is -0.0/0
neg_div_size(x, n) == IF n = 0 THEN NaN ELSE returned((-x) \div n)

---------------------------------------------------------------------------
(* The element functions handed to the engine.  A function object is a      *)
(* record: op names the function, the other fields are what it captures.    *)

\* mutant: the difference without std::abs
manhattan_signed(t1, t2) == t1 - t2

manhattan(t1, t2) == abs(t1 - t2)

\* the lambda of the first revision's L1_f
abs_diff(a, b) == abs(a - b)

\* the lambda of L2_f
euc_dist(a, b) == pow2(a - b)

\* the lambda hbr of huber, on the difference
hbr(diff, threshold) ==
    IF diff <= threshold
    THEN half(pow2(diff))
    ELSE mul(threshold, abs(diff)) - half(threshold)

\* the lambda hbr of huber_f, on the two elements
hbr_f(a, b, threshold) ==
    LET diff == a - b
    IN  IF diff <= threshold
        THEN half(pow2(diff))
        ELSE mul(threshold, abs(diff)) - half(threshold)

\* mutant: the lambda of hinge without std::max
hinge_elem_nomax(gnd, pred) == One - mul(gnd, pred)

\* mutant: the lambda of hinge with the product added instead of subtracted
hinge_elem_plus(gnd, pred) == max(0, One + mul(gnd, pred))

\* the lambda of hinge
hinge_elem(gnd, pred) == max(0, One - mul(gnd, pred))

\* the lambda f of bce_f
bce_elem(gnd, pred) == mul(gnd, log(pred)) + mul(gnd - One, log(One - pred))

\* the lambda f of ce_f
ce_elem(gnd, pred) == mul(gnd, log(pred))

\* f(a, b) for a function object f
invoke(f, a, b) ==
    CASE f.op = "manhattan" -> manhattan(a, b)
      [] f.op = "abs_diff"  -> abs_diff(a, b)
      [] f.op = "euc_dist"  -> euc_dist(a, b)
      [] f.op = "hbr"       -> hbr_f(a, b, f.threshold)
      [] f.op = "hinge"     -> hinge_elem(a, b)
      [] f.op = "bce"       -> bce_elem(a, b)
      [] f.op = "ce"        -> ce_elem(a, b)

---------------------------------------------------------------------------
(* The reduction engine *)

\* mutant: a zip that yields nothing when the lengths differ
zip_size_reject(r0, r1) == IF Len(r0) = Len(r1) THEN Len(r0) ELSE 0

\* the number of tuples a zip of two ranges yields: it ends with the shorter
zip_size(r0, r1) == min(Len(r0), Len(r1))

\* std::views::zip(r0, r1)
zip(r0, r1) == [i \in 1..zip_size(r0, r1) |-> <<r0[i], r1[i]>>]

\* std::views::zip_transform(f, r0, r1)
zip_transform(f, r0, r1) == [i \in 1..zip_size(r0, r1) |-> invoke(f, r0[i], r1[i])]

\* mutant: the additions made front to back, as fold_left makes them
fold_left_step(applied, t, acc) ==
    [tail |-> t - 1,
     accum |-> acc + applied[Len(applied) - t + 1],
     at |-> Len(applied) - t + 1]

\* one iteration of fold_right with std::plus: accum = f(*--tail, accum)
\* (at: the 1-based index of the element *--tail reads)
fold_right_step(applied, t, acc) ==
    [tail |-> t - 1, accum |-> applied[t] + acc, at |-> t]

\* fold_right's loop ends when tail has come back to first
fold_right_done(t) == t = 0

RECURSIVE fold_right_from(_, _, _)
fold_right_from(applied, t, acc) ==
    IF fold_right_done(t) THEN acc
    ELSE LET s == fold_right_step(applied, t, acc)
         IN  fold_right_from(applied, s.tail, s.accum)

\* std::ranges::fold_right(applied.begin(), applied.end(), init, std::plus<>())
fold_right(applied, init) == fold_right_from(applied, Len(applied), init)

\* second revision's engine
apply_and_accumulate(f, r0, r1) == fold_right(zip_transform(f, r0, r1), 0)

\* first revision's engine
apply_and_sum(f, r0, r1) == fold_right(zip_transform(f, r0, r1), 0)

\* the hand-written loops: x = 0; for (... : zip(ground, predicted)) x += term
RECURSIVE loop_from(_, _, _)
loop_from(terms, i, x) ==
    IF i > Len(terms) THEN x ELSE loop_from(terms, i + 1, x + terms[i])

for_zip(terms) == loop_from(terms, 1, 0)

---------------------------------------------------------------------------
(* The kernels *)

L1(ground, predicted) ==
    LET z == zip(ground, predicted)
    IN  for_zip([i \in 1..Len(z) |-> abs(z[i][1] - z[i][2])])

L1_f(ground, predicted) == apply_and_accumulate([op |-> "manhattan"], ground, predicted)

\* first revision: the lambda abs_diff through _apply_and_sum
L1_f_rev1(ground, predicted) == apply_and_sum([op |-> "abs_diff"], ground, predicted)

L2(ground, predicted) ==
    LET z == zip(ground, predicted)
    IN  sqrt(for_zip([i \in 1..Len(z) |-> pow2(z[i][1] - z[i][2])]))

\* third revision: the loop of L2 without the square root
L2_rev3(ground, predicted) ==
    LET z == zip(ground, predicted)
    IN  for_zip([i \in 1..Len(z) |-> pow2(z[i][1] - z[i][2])])

L2_f(ground, predicted) ==
    sqrt(apply_and_accumulate([op |-> "euc_dist"], ground, predicted))

L2_f_rev1(ground, predicted) ==
    sqrt(apply_and_sum([op |-> "euc_dist"], ground, predicted))

huber(ground, predicted, threshold) ==
    LET z == zip(ground, predicted)
    IN  for_zip([i \in 1..Len(z) |-> hbr(z[i][1] - z[i][2], threshold)])

huber_f(ground, predicted, threshold) ==
    apply_and_accumulate([op |-> "hbr", threshold |-> threshold], ground, predicted)

hinge(ground, predicted) == apply_and_accumulate([op |-> "hinge"], ground, predicted)

bce(ground, predicted) ==
    LET z == zip(ground, predicted)
        s == for_zip([i \in 1..Len(z) |->
                 mul(z[i][1], log(z[i][2])) + mul(z[i][1] - One, log(One - z[i][2]))])
    IN  neg_div_size(s, Len(ground))

\* mutant: the sum divided by the size of predicted
bce_f_by_predicted(ground, predicted) ==
    neg_div_size(apply_and_accumulate([op |-> "bce"], ground, predicted), Len(predicted))

bce_f(ground, predicted) ==
    neg_div_size(apply_and_accumulate([op |-> "bce"], ground, predicted), Len(ground))

ce(ground, predicted) ==
    LET z == zip(ground, predicted)
        s == for_zip([i \in 1..Len(z) |-> mul(z[i][1], log(z[i][2]))])
    IN  neg_div_size(s, Len(ground))

ce_f(ground, predicted) ==
    neg_div_size(apply_and_accumulate([op |-> "ce"], ground, predicted), Len(ground))

\* mutant: the negative-pair branch without std::max
contrastive_nomax(ground, featuresA, featuresB, margin) ==
    LET dist == L2_f(featuresA, featuresB)
    IN  IF ground THEN pow2(dist) ELSE pow2(margin - dist)

contrastive(ground, featuresA, featuresB, margin) ==
    LET dist == L2_f(featuresA, featuresB)
    IN  IF ground THEN pow2(dist) ELSE pow2(max(margin - dist, 0))

contrastive_rev1(ground, featuresA, featuresB, margin) ==
    LET dist == L2_f_rev1(featuresA, featuresB)
    IN  IF ground THEN pow2(dist) ELSE pow2(max(margin - dist, 0))

\* mutant: the two distances exchanged
tr_swapped(anchor, positive, negative, margin) ==
    LET dist_pos == L2_f(anchor, positive)
        dist_neg == L2_f(anchor, negative)
    IN  max(dist_neg - dist_pos + margin, 0)

tr(anchor, positive, negative, margin) ==
    LET dist_pos == L2_f(anchor, positive)
        dist_neg == L2_f(anchor, negative)
    IN  max(dist_pos - dist_neg + margin, 0)

\* mutant: the sum of exponentials misses the first element
softmax_skip_first(predicted) ==
    LET expd    == [i \in 1..Len(predicted) |-> exp(predicted[i])]
        exp_sum == fold_right(IF expd = <<>> THEN expd ELSE Tail(expd), 0)
        div_by_sum(pred) == [num |-> pred, den |-> exp_sum]
    IN  [i \in 1..Len(expd) |-> div_by_sum(expd[i])]

\* softmax: an entry pred/exp_sum is kept as the exact quotient num/den
softmax(predicted) ==
    LET expd    == [i \in 1..Len(predicted) |-> exp(predicted[i])]
        exp_sum == fold_right(expd, 0)
        div_by_sum(pred) == [num |-> pred, den |-> exp_sum]
    IN  [i \in 1..Len(expd) |-> div_by_sum(expd[i])]

---------------------------------------------------------------------------
(* The calls: which kernels are called, and with what *)

\* kernels that return the engine's sum, post-processed
EngineFns == {"L1_f", "L1_f_rev1", "L2_f", "huber_f", "hinge", "bce_f", "ce_f"}

\* kernels computed by their own loop or by composing other kernels
DirectFns ==
    {"L1", "L2", "L2_rev3", "huber", "contrastive", "contrastive_rev1", "tr", "bce", "ce"}

\* element values of the sequences passed to the paired kernels
Vals == {-100, 0, 40, 150}

\* element values of the feature vectors passed to contrastive and tr
FeatVals == {0, 30, 40}

Thresholds == {20, 100}

\* label values and probability values of the sequences passed to bce and ce
Labels == {0, 100}

Probs == {10, 50, 90}

Margins == {-20, 20}

SeqsOver(S) == UNION {[1..n -> S] : n \in 0..MaxLen}

\* the sequences main passes
main_ground == <<10, 100, 30, 50, 70>>

main_predicted == <<10, 30, 40, 10, 20>>

\* the scalar parameters main passes: huber's threshold 0.2, contrastive's
\* margin 2.0, tr's margin 0.2
main_threshold == 20

main_margin_contrastive == 200

main_margin_tr == 20

PairArgs == (SeqsOver(Vals) \X SeqsOver(Vals)) \cup {<<main_ground, main_predicted>>}

FeatArgs == (SeqsOver(FeatVals) \X SeqsOver(FeatVals)) \cup {<<main_ground, main_predicted>>}

BceArgs == (SeqsOver(Labels) \X SeqsOver(Probs)) \cup {<<main_ground, main_predicted>>}

TripletArgs ==
    (SeqsOver(FeatVals) \X SeqsOver(FeatVals) \X SeqsOver(FeatVals))
        \cup {<<main_predicted, main_ground, main_predicted>>}

\* the function object kernel k hands to the engine
lambda_of(k, t) ==
    CASE k = "L1_f"      -> [op |-> "manhattan"]
      [] k = "L1_f_rev1" -> [op |-> "abs_diff"]
      [] k = "L2_f"      -> [op |-> "euc_dist"]
      [] k = "huber_f"   -> [op |-> "hbr", threshold |-> t]
      [] k = "hinge"     -> [op |-> "hinge"]
      [] k = "bce_f"     -> [op |-> "bce"]
      [] k = "ce_f"      -> [op |-> "ce"]

\* the engine's view applied, for kernel k
applied_of(k, r0, r1, t) == zip_transform(lambda_of(k, t), r0, r1)

\* what kernel f makes of the engine's sum
post_of(f, sum) == IF f = "L2_f" THEN sqrt(sum) ELSE sum

\* the value a directly computed kernel returns
direct_of(f, r0, r1, r2, t, b) ==
    CASE f = "L1"               -> L1(r0, r1)
      [] f = "L2"               -> L2(r0, r1)
      [] f = "L2_rev3"          -> L2_rev3(r0, r1)
      [] f = "huber"            -> huber(r0, r1, t)
      [] f = "contrastive"      -> contrastive(b, r0, r1, t)
      [] f = "contrastive_rev1" -> contrastive_rev1(b, r0, r1, t)
      [] f = "tr"               -> tr(r0, r1, r2, t)

---------------------------------------------------------------------------
(* Calls on parallel threads.  The caller owns the sequences (mem); each     *)
(* thread calls a kernel on sequences of mem, passed by const reference, and *)
(* an engine call keeps its iterator and accumulator in its own frame.       *)

Threads == {"t1", "t2"}

\* the kernels the threads call: one through the engine, and softmax
ParKernels == {"L1_f", "softmax"}

\* element values of the sequences the threads share
ParVals == {-100, 40}

NoFrame == [live |-> FALSE, tail |-> 0, accum |-> 0]

IdleThread == [pc |-> "idle", k |-> "none", a0 |-> 1, a1 |-> 1, val |-> 0, outv |-> <<>>]

ParInit ==
    [phase |-> "new",
     mem   |-> <<>>,
     mem0  |-> <<>>,
     th    |-> [t \in Threads |-> IdleThread],
     frame |-> [t \in Threads |-> NoFrame]]

\* mutant: one frame for every call, as a static accumulator would be
frame_shared(t) == "t1"

\* the frame holding a call's locals: automatic storage, one per call
frame_of(t) == t

\* what a directly computed kernel returns, NaN included
direct_ret_of(f, r0, r1, r2, t, b) ==
    CASE f = "bce" -> bce(r0, r1)
      [] f = "ce"  -> ce(r0, r1)
      [] OTHER     -> returned(direct_of(f, r0, r1, r2, t, b))

\* what kernel f returns from the engine's sum, NaN included
engine_ret_of(f, sum, ground) ==
    CASE f = "bce_f" -> neg_div_size(sum, Len(ground))
      [] f = "ce_f"  -> neg_div_size(sum, Len(ground))
      [] OTHER       -> returned(post_of(f, sum))

---------------------------------------------------------------------------
(* The state machine *)

Init ==
    /\ fn = "none"
    /\ seq0 = <<>> /\ seq1 = <<>> /\ seq2 = <<>>
    /\ scalar = 0
    /\ flag = FALSE
    /\ pc = "idle"
    /\ tail = 0
    /\ accum = 0
    /\ order = <<>>
    /\ result = 0
    /\ out = <<>>
    /\ outcome = "none"
    /\ nan = FALSE
    /\ par = ParInit

\* a caller invokes kernel f on its arguments
Call(f, r0, r1, r2, t, b) ==
    /\ fn' = f
    /\ seq0' = r0 /\ seq1' = r1 /\ seq2' = r2
    /\ scalar' = t
    /\ flag' = b
    /\ pc' = "run"
    /\ UNCHANGED <<tail, accum, order, result, out, outcome, nan, par>>

CallPair ==
    /\ pc = "idle"
    /\ \E f \in {"L1", "L1_f", "L1_f_rev1", "L2", "L2_f", "L2_rev3", "hinge"}, a \in PairArgs :
           Call(f, a[1], a[2], <<>>, 0, FALSE)

CallHuber ==
    /\ pc = "idle"
    /\ \E f \in {"huber", "huber_f"}, a \in PairArgs, t \in Thresholds \cup {main_threshold} :
           Call(f, a[1], a[2], <<>>, t, FALSE)

CallBce ==
    /\ pc = "idle"
    /\ \E f \in {"bce", "bce_f", "ce", "ce_f"}, a \in BceArgs :
           Call(f, a[1], a[2], <<>>, 0, FALSE)

CallContrastive ==
    /\ pc = "idle"
    /\ \E f \in {"contrastive", "contrastive_rev1"}, a \in FeatArgs,
          t \in Margins \cup {main_margin_contrastive}, b \in BOOLEAN :
           Call(f, a[1], a[2], <<>>, t, b)

CallTr ==
    /\ pc = "idle"
    /\ \E a \in TripletArgs, t \in Margins \cup {main_margin_tr} :
           Call("tr", a[1], a[2], a[3], t, FALSE)

CallSoftmax ==
    /\ pc = "idle"
    /\ \E p \in SeqsOver(Vals) \cup {main_predicted} :
           Call("softmax", p, <<>>, <<>>, 0, FALSE)

\* a directly computed kernel runs to its return
RunDirect ==
    /\ pc = "run"
    /\ fn \in DirectFns
    /\ LET r == direct_ret_of(fn, seq0, seq1, seq2, scalar, flag)
       IN  result' = r.v /\ nan' = r.nan
    /\ outcome' = "value"
    /\ pc' = "done"
    /\ UNCHANGED <<fn, seq0, seq1, seq2, scalar, flag, tail, accum, order, out, par>>

\* the engine is entered: tail = applied.end(), the accumulator is init = 0
EngineBegin ==
    /\ pc = "run"
    /\ fn \in EngineFns
    /\ tail' = Len(applied_of(fn, seq0, seq1, scalar))
    /\ accum' = 0
    /\ pc' = "fold"
    /\ UNCHANGED <<fn, seq0, seq1, seq2, scalar, flag, order, result, out, outcome, nan, par>>

\* one addition of fold_right
FoldStep ==
    /\ pc = "fold"
    /\ ~fold_right_done(tail)
    /\ LET s == fold_right_step(applied_of(fn, seq0, seq1, scalar), tail, accum)
       IN  /\ tail' = s.tail
           /\ accum' = s.accum
           /\ order' = Append(order, s.at)
    /\ UNCHANGED <<fn, seq0, seq1, seq2, scalar, flag, pc, result, out, outcome, nan, par>>

\* the engine returns its sum and the kernel returns
EngineReturn ==
    /\ pc = "fold"
    /\ fold_right_done(tail)
    /\ LET r == engine_ret_of(fn, accum, seq0)
       IN  result' = r.v /\ nan' = r.nan
    /\ outcome' = "value"
    /\ pc' = "done"
    /\ UNCHANGED <<fn, seq0, seq1, seq2, scalar, flag, tail, accum, order, out, par>>

RunSoftmax ==
    /\ pc = "run"
    /\ fn = "softmax"
    /\ out' = softmax(seq0)
    /\ outcome' = "value"
    /\ pc' = "done"
    /\ UNCHANGED <<fn, seq0, seq1, seq2, scalar, flag, tail, accum, order, result, nan, par>>

Next ==
    \/ CallPair
    \/ CallHuber
    \/ CallBce
    \/ CallContrastive
    \/ CallTr
    \/ CallSoftmax
    \/ RunDirect
    \/ EngineBegin
    \/ FoldStep
    \/ EngineReturn
    \/ RunSoftmax

Spec == Init /\ [][Next]_vars

---------------------------------------------------------------------------
(* The state machine of the parallel calls *)

\* the view the call of thread t folds: zip_transform's, or softmax's expd
par_applied(t) ==
    LET c == par.th[t]
    IN  IF c.k = "softmax"
        THEN [i \in 1..Len(par.mem[c.a0]) |-> exp(par.mem[c.a0][i])]
        ELSE zip_transform(lambda_of(c.k, 0), par.mem[c.a0], par.mem[c.a1])

\* the caller builds the sequences the calls will read
ParSetup ==
    /\ par.phase = "new"
    /\ \E a \in SeqsOver(ParVals), b \in SeqsOver(ParVals) :
           par' = [par EXCEPT !.phase = "run", !.mem = <<a, b>>, !.mem0 = <<a, b>>]
    /\ UNCHANGED seqvars

\* thread t calls kernel k on the sequences i and j of mem
ParCall(t) ==
    /\ par.phase = "run"
    /\ par.th[t].pc = "idle"
    /\ \E k \in ParKernels, i \in 1..2, j \in 1..2 :
           /\ k = "softmax" => j = 1
           /\ par' = [par EXCEPT !.th[t] =
                         [pc |-> "run", k |-> k, a0 |-> i, a1 |-> j, val |-> 0, outv |-> <<>>]]
    /\ UNCHANGED seqvars

\* fold_right is entered: tail = end, the accumulator is init = 0
ParBegin(t) ==
    /\ par.th[t].pc = "run"
    /\ par' = [par EXCEPT !.th[t].pc = "fold",
                          !.frame[frame_of(t)] =
                              [live |-> TRUE, tail |-> Len(par_applied(t)), accum |-> 0]]
    /\ UNCHANGED seqvars

\* one addition of fold_right, on the call's frame
ParFoldStep(t) ==
    /\ par.th[t].pc = "fold"
    /\ LET fr == par.frame[frame_of(t)]
       IN  /\ ~fold_right_done(fr.tail)
           /\ LET s == fold_right_step(par_applied(t), fr.tail, fr.accum)
              IN  par' = [par EXCEPT !.frame[frame_of(t)] =
                             [live |-> TRUE, tail |-> s.tail, accum |-> s.accum]]
    /\ UNCHANGED seqvars

\* the fold is over: the kernel returns and its frame is gone
ParReturn(t) ==
    /\ par.th[t].pc = "fold"
    /\ LET fr == par.frame[frame_of(t)]
           c  == par.th[t]
           ex == par_applied(t)
       IN  /\ fold_right_done(fr.tail)
           /\ par' = [par EXCEPT
                         !.th[t].pc = "done",
                         !.th[t].val = IF c.k = "softmax" THEN 0 ELSE post_of(c.k, fr.accum),
                         !.th[t].outv =
                             IF c.k = "softmax"
                             THEN [i \in 1..Len(ex) |-> [num |-> ex[i], den |-> fr.accum]]
                             ELSE <<>>,
                         !.frame[frame_of(t)] = NoFrame]
    /\ UNCHANGED seqvars

\* the caller has taken the result; the thread may call again
ParRelease(t) ==
    /\ par.th[t].pc = "done"
    /\ par' = [par EXCEPT !.th[t] = IdleThread]
    /\ UNCHANGED seqvars

NextPar ==
    \/ ParSetup
    \/ \E t \in Threads : ParCall(t)
    \/ \E t \in Threads : ParBegin(t)
    \/ \E t \in Threads : ParFoldStep(t)
    \/ \E t \in Threads : ParReturn(t)
    \/ \E t \in Threads : ParRelease(t)

SpecPar == Init /\ [][NextPar]_vars

---------------------------------------------------------------------------
(* Definitions the properties are stated with *)

RECURSIVE SumRange(_, _, _)
\* s[lo] + ... + s[hi], 0 when the range is empty
SumRange(s, lo, hi) == IF lo > hi THEN 0 ELSE s[lo] + SumRange(s, lo + 1, hi)

Prefix(s, n) == SubSeq(s, 1, n)

\* the number of element tuples two sequences share
Shortest(a, b) == IF Len(a) <= Len(b) THEN Len(a) ELSE Len(b)

Done(f) == pc = "done" /\ fn = f

DoneIn(F) == pc = "done" /\ fn \in F

PairedFns == EngineFns \cup DirectFns

LengthsDiffer ==
    \/ Len(seq0) # Len(seq1)
    \/ fn = "tr" /\ Len(seq0) # Len(seq2)

\* the value kernel f has on sequences cut to the tuples they share
ValueOnShared(f) ==
    LET n01 == Shortest(seq0, seq1)
        n02 == Shortest(seq0, seq2)
        a   == Prefix(seq0, n01)
        b   == Prefix(seq1, n01)
    IN  CASE f = "L1"               -> SumRange([i \in 1..n01 |-> abs(a[i] - b[i])], 1, n01)
          [] f = "L1_f"             -> SumRange([i \in 1..n01 |-> abs(a[i] - b[i])], 1, n01)
          [] f = "L1_f_rev1"        -> SumRange([i \in 1..n01 |-> abs(a[i] - b[i])], 1, n01)
          [] f = "L2"               -> L2(a, b)
          [] f = "L2_f"             -> L2(a, b)
          [] f = "L2_rev3"          -> L2_rev3(a, b)
          [] f = "huber"            -> huber(a, b, scalar)
          [] f = "huber_f"          -> huber(a, b, scalar)
          [] f = "hinge"            -> hinge(a, b)
          [] f = "contrastive"      -> contrastive(flag, a, b, scalar)
          [] f = "contrastive_rev1" -> contrastive(flag, a, b, scalar)
          [] f = "tr"               ->
                max(L2(a, b) - L2(Prefix(seq0, n02), Prefix(seq2, n02)) + scalar, 0)
          [] f \in {"bce", "bce_f"} ->
                neg_div_size(SumRange([i \in 1..n01 |-> bce_elem(a[i], b[i])], 1, n01),
                             Len(seq0)).v
          [] f \in {"ce", "ce_f"}   ->
                neg_div_size(SumRange([i \in 1..n01 |-> ce_elem(a[i], b[i])], 1, n01),
                             Len(seq0)).v

---------------------------------------------------------------------------
(* C1 *)

---------------------------------------------------------------------------
(* C2 *)

\* the engine's lazily transformed view, for the call in progress
Applied == applied_of(fn, seq0, seq1, scalar)

InEngine == pc \in {"fold", "done"} /\ fn \in EngineFns

---------------------------------------------------------------------------
(* C3 *)

\* C3: huber and huber_f are non-negative on equal-length sequences, for every
\* threshold, the linear branch included.
C3_HuberNonNegative ==
    (DoneIn({"huber", "huber_f"}) /\ Len(seq0) = Len(seq1)) => result >= 0

---------------------------------------------------------------------------
(* C4 *)

\* C4: L1, L2 and hinge (every variant) return a non-negative value on
\* equal-length sequences, the empty one and negative elements included.
C4_NonNegative ==
    (DoneIn({"L1", "L1_f", "L1_f_rev1", "L2", "L2_f", "L2_rev3", "hinge"})
        /\ Len(seq0) = Len(seq1)) => result >= 0

C4_Witness ==
    /\ Done("hinge")
    /\ Len(seq0) = Len(seq1)
    /\ \E i \in 1..Len(seq0) : seq0[i] < 0
    /\ \E i \in 1..Len(seq0) : seq0[i] * seq1[i] > Scale * Scale

---------------------------------------------------------------------------
(* C5 *)

\* the sum of the squared element differences
SumSq(a, b) ==
    LET n == Shortest(a, b)
    IN  SumRange([i \in 1..n |-> pow2(a[i] - b[i])], 1, n)

\* C5: every function named L2 returns the square root of the sum of the
\* squared differences; on main's sequences the sum is 0.91.
C5_EveryL2IsEuclidean ==
    DoneIn({"L2", "L2_f", "L2_rev3"}) =>
        /\ result = sqrt(SumSq(seq0, seq1))
        /\ (seq0 = main_ground /\ seq1 = main_predicted) => SumSq(seq0, seq1) = 91

---------------------------------------------------------------------------
(* C6 *)

\* C6: L1(a,a) = 0 and L2(a,a) = 0, and on equal-length sequences L1 is 0
\* exactly when the sequences are elementwise equal.
C6_ZeroIffEqual ==
    DoneIn({"L1", "L1_f", "L1_f_rev1", "L2", "L2_f", "L2_rev3"}) =>
        /\ seq0 = seq1 => result = 0
        /\ (fn \in {"L1", "L1_f", "L1_f_rev1"} /\ Len(seq0) = Len(seq1)) =>
              (result = 0 <=> seq0 = seq1)

C6_Witness ==
    /\ Done("L1_f")
    /\ Len(seq0) = 2 /\ Len(seq1) = 2
    /\ seq0 # seq1
    /\ seq0[1] - seq1[1] = seq1[2] - seq0[2]

---------------------------------------------------------------------------
(* C7 *)

\* C7: tr is max(L2(anchor,positive) - L2(anchor,negative) + margin, 0): never
\* negative, 0 whenever L2(anchor,negative) - L2(anchor,positive) >= margin,
\* and L2(anchor,positive) + margin when negative = anchor and margin >= 0.
C7_TripletFormula ==
    Done("tr") =>
        LET dp == L2(seq0, seq1)
            dn == L2(seq0, seq2)
        IN  /\ result = max(dp - dn + scalar, 0)
            /\ result >= 0
            /\ dn - dp >= scalar => result = 0
            /\ (seq2 = seq0 /\ scalar >= 0) => result = dp + scalar

C7_Witness ==
    /\ Done("tr")
    /\ scalar > 0
    /\ L2(seq0, seq1) > 0
    /\ L2(seq0, seq2) - L2(seq0, seq1) >= scalar

---------------------------------------------------------------------------
(* C8 *)

\* C8: with d = L2(featuresA, featuresB), contrastive returns d^2 when the
\* label is true (whatever the margin) and max(margin - d, 0)^2 when it is
\* false, which is 0 once d >= margin.
C8_ContrastiveFormula ==
    DoneIn({"contrastive", "contrastive_rev1"}) =>
        LET d == L2(seq0, seq1)
        IN  /\ flag => result = pow2(d)
            /\ ~flag => result = pow2(max(scalar - d, 0))
            /\ (~flag /\ d >= scalar) => result = 0

C8_Witness ==
    /\ Done("contrastive")
    /\ ~flag
    /\ scalar > 0
    /\ L2(seq0, seq1) > scalar

---------------------------------------------------------------------------
(* C9 *)

\* C9: hinge is the sum of max(0, 1 - g_i*p_i) over the element pairs: 0 when
\* every pair has g_i*p_i >= 1, strictly positive when some pair has
\* g_i*p_i < 1.  (g_i*p_i >= 1 is seq0[i]*seq1[i] >= Scale*Scale, exactly.)
C9_HingeSum ==
    Done("hinge") =>
        LET n == Shortest(seq0, seq1)
        IN  /\ result = SumRange([i \in 1..n |-> max(0, One - mul(seq0[i], seq1[i]))], 1, n)
            /\ (\A i \in 1..n : seq0[i] * seq1[i] >= Scale * Scale) => result = 0
            /\ (\E i \in 1..n : seq0[i] * seq1[i] < Scale * Scale) => result > 0

C9_Witness ==
    /\ Done("hinge")
    /\ \E i \in 1..Shortest(seq0, seq1) : seq0[i] * seq1[i] >= Scale * Scale
    /\ \E i \in 1..Shortest(seq0, seq1) : seq0[i] * seq1[i] < Scale * Scale

---------------------------------------------------------------------------
(* C10 *)

\* the entries of softmax's result, for a non-empty input
C10_Entries ==
    (Done("softmax") /\ Len(seq0) > 0) =>
        LET n    == Len(seq0)
            expd == [i \in 1..n |-> exp(seq0[i])]
        IN  /\ Len(out) = n
            /\ \A i \in 1..n :
                  /\ out[i].num = expd[i]
                  /\ out[i].den = SumRange(expd, 1, n)
                  /\ 0 < out[i].num /\ out[i].num <= out[i].den
            /\ SumRange([i \in 1..n |-> out[i].num], 1, n) = out[1].den

\* C10: for a non-empty input softmax returns a sequence of the same length
\* whose i-th entry is e^{x_i} over the sum of all e^{x_j}; every entry lies in
\* (0,1] and the entries sum to 1; the input sequence is left unchanged.
C10_Softmax ==
    /\ []C10_Entries
    /\ [][fn = "softmax" => seq0' = seq0]_vars

C10_Witness ==
    /\ Done("softmax")
    /\ Len(seq0) = 2
    /\ seq0[1] # seq0[2]

---------------------------------------------------------------------------
(* C11 *)

\* what the call of thread t returns when it runs alone on the caller's sequences
AloneVal(t) ==
    LET c == par.th[t]
    IN  IF c.k = "L1_f" THEN L1_f(par.mem0[c.a0], par.mem0[c.a1]) ELSE 0

AloneOut(t) ==
    LET c == par.th[t]
    IN  IF c.k = "softmax" THEN softmax(par.mem0[c.a0]) ELSE <<>>

\* C11: calls interleaved on parallel threads, on the same or on different
\* sequences and without locking, each return what they return alone; no call
\* changes the caller's sequences; a thread that is not inside a call holds no
\* state of one.
C11_NoSharedState ==
    /\ par.mem = par.mem0
    /\ \A t \in Threads :
          /\ par.th[t].pc = "done" =>
                /\ par.th[t].val = AloneVal(t)
                /\ par.th[t].outv = AloneOut(t)
          /\ par.th[t].pc \in {"idle", "run", "done"} => par.frame[t] = NoFrame

\* both threads inside the engine at once, on the same sequences, mid-fold
C11_Witness ==
    /\ par.th["t1"].pc = "fold" /\ par.th["t2"].pc = "fold"
    /\ par.th["t1"].k = "L1_f" /\ par.th["t2"].k = "softmax"
    /\ par.th["t1"].a0 = par.th["t2"].a0
    /\ par.frame["t1"].tail = 1 /\ par.frame["t2"].tail = 1
    /\ par.frame["t1"].accum # par.frame["t2"].accum

---------------------------------------------------------------------------
(* C12 *)

TwinFns == {"L1", "L1_f", "L1_f_rev1", "L2", "L2_f", "huber", "huber_f",
            "bce", "bce_f", "ce", "ce_f"}

\* what the other variant of kernel f returns on the arguments of the call
TwinValue(f) ==
    CASE f = "L1"        -> returned(L1_f(seq0, seq1))
      [] f = "L1_f"      -> returned(L1(seq0, seq1))
      [] f = "L1_f_rev1" -> returned(L1(seq0, seq1))
      [] f = "L2"        -> returned(L2_f(seq0, seq1))
      [] f = "L2_f"      -> returned(L2(seq0, seq1))
      [] f = "huber"     -> returned(huber_f(seq0, seq1, scalar))
      [] f = "huber_f"   -> returned(huber(seq0, seq1, scalar))
      [] f = "bce"       -> bce_f(seq0, seq1)
      [] f = "bce_f"     -> bce(seq0, seq1)
      [] f = "ce"        -> ce_f(seq0, seq1)
      [] f = "ce_f"      -> ce(seq0, seq1)

\* the sum of the terms of bce or ce over the element pairs the sequences share
SharedSum(f) ==
    LET n == Shortest(seq0, seq1)
    IN  IF f \in {"bce", "bce_f"}
        THEN SumRange([i \in 1..n |-> bce_elem(seq0[i], seq1[i])], 1, n)
        ELSE SumRange([i \in 1..n |-> ce_elem(seq0[i], seq1[i])], 1, n)

\* C12: a hand-written loop and its engine twin return the same value on every
\* pair of sequences (and every threshold), sequences of differing length
\* included: both process the pairs the sequences share, and bce and ce divide
\* by the length of ground in both variants.
C12_TwinsAgree ==
    DoneIn(TwinFns) =>
        /\ [nan |-> nan, v |-> result] = TwinValue(fn)
        /\ (fn \in {"bce", "bce_f", "ce", "ce_f"} /\ Len(seq0) > 0) =>
              /\ ~nan
              /\ result = (-SharedSum(fn)) \div Len(seq0)

C12_Witness ==
    /\ Done("bce")
    /\ Len(seq0) = 2 /\ Len(seq1) = 1
    /\ result # 0

====
